---------------------------- MODULE Spec2Model ----------------------------
(***************************************************************************)
(* File commands (src-tauri/src/commands/files.rs) and search commands     *)
(* (src-tauri/src/commands/search.rs) of TypeGodMD.                        *)
(*                                                                         *)
(* A Rust str is a sequence of Unicode code points; its bytes are the      *)
(* UTF-8 encoding of that sequence.  Byte offsets, str::find and slicing   *)
(* work on the bytes, to_lowercase works on the code points.               *)
(***************************************************************************)
EXTENDS Integers, Sequences, FiniteSets, TLC

VARIABLES
    files,           \* search_content: the paths get_all_markdown_files returned
    read,            \* search_content: what fs::read_to_string gives for each path
    query,           \* search_content: query
    case_sensitive,  \* search_content: case_sensitive.unwrap_or(false)
    regex_search,    \* search_content: regex_search.unwrap_or(false)
    outcome,         \* search_content: not called yet, panicked, or Ok(results)
    tree,            \* walker: the files below the root, in enumeration order
    name_query,      \* search_files: query
    walked,          \* get_all_markdown_files: the paths returned
    found,           \* search_files: the paths returned
    dir_entries,     \* read_directory: what fs::read_dir enumerates
    listing,         \* read_directory: the entries returned
    disk,            \* create_file: path -> content on disk, or absent
    calls,           \* create_file: each request's arguments, position and result
    pc               \* which command, if any, has run

searchVars == <<files, read, query, case_sensitive, regex_search, outcome>>
walkVars   == <<tree, name_query, walked, found>>
listVars   == <<dir_entries, listing>>
createVars == <<disk, calls>>
vars == <<searchVars, walkVars, listVars, createVars, pc>>

-----------------------------------------------------------------------------
(* Strings *)

\* Code points used below:
\*   10 '\n'   40 '('   41 ')'   46 '.'   47 '/'   63 '?'   65 'A'   66 'B'
\*   77 'M'    68 'D'   97 'a'   98 'b'   100 'd'  103 'g'  104 'h'  105 'i'
\*   109 'm'   114 'r'  304 U+0130 (capital I with dot above)
\*   775 U+0307 (combining dot above)

\* char::encode_utf8
Utf8(c) ==
    IF c < 128 THEN <<c>>
    ELSE IF c < 2048 THEN <<192 + (c \div 64), 128 + (c % 64)>>
    ELSE <<224 + (c \div 4096), 128 + ((c \div 64) % 64), 128 + (c % 64)>>

RECURSIVE Bytes(_)
\* the bytes of a str
Bytes(s) == IF s = <<>> THEN <<>> ELSE Utf8(Head(s)) \o Bytes(Tail(s))

\* str::len
ByteLen(s) == Len(Bytes(s))

\* char::to_lowercase, as a sequence of code points
LowerChar(c) ==
    IF c >= 65 /\ c <= 90 THEN <<c + 32>>
    ELSE IF c = 304 THEN <<105, 775>>
    ELSE <<c>>

RECURSIVE ToLowercase(_)
\* str::to_lowercase
ToLowercase(s) ==
    IF s = <<>> THEN <<>> ELSE LowerChar(Head(s)) \o ToLowercase(Tail(s))

\* whether byte sequence n occurs in byte sequence h at 0-based offset i
OccursAt(h, n, i) ==
    /\ i + Len(n) <= Len(h)
    /\ \A k \in 1..Len(n) : h[i + k] = n[k]

\* str::find on bytes: the least 0-based offset of n in h, or -1 for None
FindBytes(h, n) ==
    LET hits == {i \in 0..Len(h) : OccursAt(h, n, i)}
    IN  IF hits = {} THEN -1 ELSE CHOOSE i \in hits : \A j \in hits : i <= j

\* str::is_char_boundary on the bytes b of a str
IsCharBoundary(b, i) ==
    \/ i = 0
    \/ i = Len(b)
    \/ /\ i > 0
       /\ i < Len(b)
       /\ ~(b[i + 1] >= 128 /\ b[i + 1] < 192)

\* str::contains
Contains(h, n) == FindBytes(Bytes(h), Bytes(n)) >= 0

\* str::starts_with('.')
StartsWithDot(s) == Len(s) > 0 /\ s[1] = 46

RECURSIVE SplitOn(_, _, _)
\* str::split(sep): the pieces of s, cur being the piece under construction
SplitOn(s, sep, cur) ==
    IF s = <<>> THEN <<cur>>
    ELSE IF Head(s) = sep THEN <<cur>> \o SplitOn(Tail(s), sep, <<>>)
    ELSE SplitOn(Tail(s), sep, Append(cur, Head(s)))

\* path.split('/').last()
LastSegment(p) ==
    LET parts == SplitOn(p, 47, <<>>) IN parts[Len(parts)]

\* all sequences over S of length at most n
SeqsUpTo(S, n) == UNION {[1..k -> S] : k \in 0..n}

-----------------------------------------------------------------------------
(* search_content *)

\* content.lines(): the pieces between '\n', without a final empty piece
Lines(content) ==
    LET parts == SplitOn(content, 10, <<>>)
    IN  IF parts[Len(parts)] = <<>> THEN SubSeq(parts, 1, Len(parts) - 1)
        ELSE parts

\* format!("(?i){}", query) when not case_sensitive
PatternStr(q, cs) == IF cs THEN q ELSE <<40, 63, 105, 41>> \o q

RECURSIVE GroupsBalanced(_, _)
\* whether every '(' of p is closed and every ')' closes one, depth groups being open
GroupsBalanced(p, depth) ==
    IF p = <<>> THEN depth = 0
    ELSE IF Head(p) = 40 THEN GroupsBalanced(Tail(p), depth + 1)
    ELSE IF Head(p) = 41 THEN depth > 0 /\ GroupsBalanced(Tail(p), depth - 1)
    ELSE GroupsBalanced(Tail(p), depth)

\* Regex::new(&pattern_str).ok() for patterns made of literal characters, groups
\* and a leading (?i) flag: None when a group is unbalanced, else the literal the
\* pattern stands for and whether it matches case-insensitively
RegexNew(p) ==
    LET ci   == Len(p) >= 4 /\ SubSeq(p, 1, 4) = <<40, 63, 105, 41>>
        rest == IF ci THEN SubSeq(p, 5, Len(p)) ELSE p
    IN  IF GroupsBalanced(rest, 0)
        THEN [ok |-> TRUE, ci |-> ci,
              lit |-> SelectSeq(rest, LAMBDA c : c # 40 /\ c # 41)]
        ELSE [ok |-> FALSE]

\* simple case folding, as the regex crate applies it under (?i)
Fold(c) == IF c >= 65 /\ c <= 90 THEN c + 32 ELSE c

\* whether re matches the characters of line from 0-based character index i
RegexMatchesAt(re, line, i) ==
    /\ i + Len(re.lit) <= Len(line)
    /\ \A k \in 1..Len(re.lit) :
          IF re.ci THEN Fold(line[i + k]) = Fold(re.lit[k])
          ELSE line[i + k] = re.lit[k]

RECURSIVE RegexScan(_, _, _)
\* re.find_iter(line) from character index i on: leftmost, non-overlapping matches
\* as byte offsets; an empty match is followed by a step of one character
RegexScan(re, line, i) ==
    IF i > Len(line) THEN <<>>
    ELSE IF RegexMatchesAt(re, line, i)
    THEN <<<<ByteLen(SubSeq(line, 1, i)), ByteLen(SubSeq(line, 1, i + Len(re.lit)))>>>>
         \o RegexScan(re, line, IF re.lit = <<>> THEN i + 1 ELSE i + Len(re.lit))
    ELSE RegexScan(re, line, i + 1)

\* re.find_iter(line).map(|m| (m.start(), m.end())).collect()
RegexFindIter(re, line) == RegexScan(re, line, 0)

\* the resumption point of the plain scan after a match at abs_pos
NextStart(abs_pos) == abs_pos + 1

RECURSIVE PlainScan(_, _, _, _)
\* the while-let loop of the plain scan over the bytes of search_line; the slice
\* search_line[start..] panics when start is past the end or inside a character
PlainScan(line_b, query_b, start, acc) ==
    IF start > Len(line_b) \/ ~IsCharBoundary(line_b, start)
    THEN [panic |-> TRUE]
    ELSE LET pos == FindBytes(SubSeq(line_b, start + 1, Len(line_b)), query_b)
         IN  IF pos < 0 THEN [panic |-> FALSE, found |-> acc]
             ELSE PlainScan(line_b, query_b, NextStart(start + pos),
                            Append(acc, <<start + pos, start + pos + Len(query_b)>>))

\* the plain branch for one line
PlainLineMatches(line, q, cs) ==
    LET search_line  == IF cs THEN line ELSE ToLowercase(line)
        search_query == IF cs THEN q ELSE ToLowercase(q)
    IN  PlainScan(Bytes(search_line), Bytes(search_query), 0, <<>>)

\* line_matches with the plain scan as fallback for a pattern that did not compile
LineMatchesFallback(line, q, cs, use_regex, pattern) ==
    IF use_regex /\ pattern.ok
    THEN [panic |-> FALSE, found |-> RegexFindIter(pattern, line)]
    ELSE PlainLineMatches(line, q, TRUE)

\* line_matches for one line
LineMatches(line, q, cs, use_regex, pattern) ==
    IF use_regex
    THEN [panic |-> FALSE,
          found |-> IF pattern.ok THEN RegexFindIter(pattern, line) ELSE <<>>]
    ELSE PlainLineMatches(line, q, cs)

RECURSIVE ScanLines(_, _, _, _, _, _)
\* the loop over content.lines().enumerate(), from 1-based line n on
ScanLines(lines, n, q, cs, use_regex, pattern) ==
    IF n > Len(lines) THEN [panic |-> FALSE, matches |-> <<>>]
    ELSE LET lm == LineMatches(lines[n], q, cs, use_regex, pattern)
         IN  IF lm.panic THEN [panic |-> TRUE]
             ELSE LET rest == ScanLines(lines, n + 1, q, cs, use_regex, pattern)
                  IN  IF rest.panic THEN [panic |-> TRUE]
                      ELSE [panic |-> FALSE,
                            matches |->
                              [k \in 1..Len(lm.found) |->
                                 [line_number |-> n, line_content |-> lines[n],
                                  match_start |-> lm.found[k][1],
                                  match_end |-> lm.found[k][2]]] \o rest.matches]

\* results.sort_by(|a, b| b.matches.len().cmp(&a.matches.len())): does a go before b
MoreMatches(a, b) == Len(a.matches) > Len(b.matches)

\* one step of an unstable sort: x goes before the first element it is not Greater than
InsertResultUnstable(sorted, x) ==
    LET before == {k \in 1..Len(sorted) : ~MoreMatches(sorted[k], x)}
        at == IF before = {} THEN Len(sorted) + 1
              ELSE CHOOSE k \in before : \A j \in before : k <= j
    IN  SubSeq(sorted, 1, at - 1) \o <<x>> \o SubSeq(sorted, at, Len(sorted))

\* one step of a stable sort: x goes before the first element it is Less than
InsertResult(sorted, x) ==
    LET before == {k \in 1..Len(sorted) : MoreMatches(x, sorted[k])}
        at == IF before = {} THEN Len(sorted) + 1
              ELSE CHOOSE k \in before : \A j \in before : k <= j
    IN  SubSeq(sorted, 1, at - 1) \o <<x>> \o SubSeq(sorted, at, Len(sorted))

RECURSIVE SortResults(_)
\* slice::sort_by, a stable sort
SortResults(rs) ==
    IF rs = <<>> THEN <<>>
    ELSE InsertResult(SortResults(SubSeq(rs, 1, Len(rs) - 1)), rs[Len(rs)])

RECURSIVE ScanFiles(_, _, _, _, _, _, _)
\* the loop over files, from index i on
ScanFiles(fs, rd, i, q, cs, use_regex, pattern) ==
    IF i > Len(fs) THEN [panic |-> FALSE, results |-> <<>>]
    ELSE LET rest == ScanFiles(fs, rd, i + 1, q, cs, use_regex, pattern)
         IN  IF ~rd[i].ok THEN rest
             ELSE LET sl == ScanLines(Lines(rd[i].text), 1, q, cs, use_regex, pattern)
                  IN  IF sl.panic \/ rest.panic THEN [panic |-> TRUE]
                      ELSE IF sl.matches = <<>> THEN rest
                      ELSE [panic |-> FALSE,
                            results |->
                              <<[path |-> fs[i], name |-> LastSegment(fs[i]),
                                 matches |-> sl.matches]>> \o rest.results]

\* search_content(directory, query, case_sensitive, regex_search)
search_content(fs, rd, q, cs, use_regex) ==
    LET pattern == IF use_regex THEN RegexNew(PatternStr(q, cs)) ELSE [ok |-> FALSE]
        scan == ScanFiles(fs, rd, 1, q, cs, use_regex, pattern)
    IN  IF scan.panic THEN [kind |-> "panic"]
        ELSE [kind |-> "ok", results |-> SortResults(scan.results)]

-----------------------------------------------------------------------------
(* Inputs of the content search *)

MaxContentLen == 3
MaxQueryLen == 2
MaxRankFiles == 3
MaxRankLen == 3

\* 'a', 'A', U+0130 (two bytes, lower-cased to the three bytes of "i" U+0307), '('
SearchAlphabet == {97, 65, 304, 40}

ContentAlphabet == SearchAlphabet \cup {10}

\* "r/1.md", "r/2.md", ...: distinct paths as the walker returns them
DocPath(i) == <<114, 47, 48 + i, 46, 109, 100>>

ReadErr == [ok |-> FALSE]

ReadOk(text) == [ok |-> TRUE, text |-> text]

\* what fs::read_to_string may give for a file of at most n characters over S
ReadResults(S, n) == {ReadErr} \cup {ReadOk(t) : t \in SeqsUpTo(S, n)}

NotCalled == [kind |-> "none"]

IdleSearch ==
    /\ files = <<>>
    /\ read = <<>>
    /\ query = <<>>
    /\ case_sensitive = FALSE
    /\ regex_search = FALSE
    /\ outcome = NotCalled

IdleWalk ==
    /\ tree = <<>>
    /\ name_query = <<>>
    /\ walked = <<>>
    /\ found = <<>>

IdleList ==
    /\ dir_entries = <<>>
    /\ listing = <<>>

IdleCreate ==
    /\ disk = <<>>
    /\ calls = <<>>

\* one document of any content, any query, any flags
InitSearch ==
    /\ files = <<DocPath(1)>>
    /\ read \in [1..1 -> ReadResults(ContentAlphabet, MaxContentLen)]
    /\ query \in SeqsUpTo(SearchAlphabet, MaxQueryLen)
    /\ case_sensitive \in BOOLEAN
    /\ regex_search \in BOOLEAN
    /\ outcome = NotCalled
    /\ pc = "start"
    /\ IdleWalk /\ IdleList /\ IdleCreate

\* several documents of one line of a's each, queries "a" and "aa"
InitRank ==
    /\ files = [i \in 1..MaxRankFiles |-> DocPath(i)]
    /\ read \in [1..MaxRankFiles -> ReadResults({97}, MaxRankLen)]
    /\ query \in {<<97>>, <<97, 97>>}
    /\ case_sensitive \in BOOLEAN
    /\ regex_search \in BOOLEAN
    /\ outcome = NotCalled
    /\ pc = "start"
    /\ IdleWalk /\ IdleList /\ IdleCreate

SearchContentCall ==
    /\ pc = "start"
    /\ outcome' = search_content(files, read, query, case_sensitive, regex_search)
    /\ pc' = "done"
    /\ UNCHANGED <<files, read, query, case_sensitive, regex_search>>
    /\ UNCHANGED <<walkVars, listVars, createVars>>

NextSearch == SearchContentCall

SpecSearch == InitSearch /\ [][NextSearch]_vars

SpecRank == InitRank /\ [][NextSearch]_vars

-----------------------------------------------------------------------------
(* Claims about search_content *)

Returned == pc = "done" /\ outcome.kind = "ok"

Panicked == pc = "done" /\ outcome.kind = "panic"

\* the index in files of a path
FileIndex(p) == CHOOSE i \in 1..Len(files) : files[i] = p

\* the lines of the i-th document, none when it cannot be read
DocLines(i) == IF read[i].ok THEN Lines(read[i].text) ELSE <<>>

\* the 0-based character indices of s that lie at byte offset b
CharsAtByte(s, b) == {k \in 0..Len(s) : ByteLen(SubSeq(s, 1, k)) = b}

\* C2: in plain mode an empty query is not searched: the call returns an empty
\* result list, whatever the documents hold.
C2_EmptyQueryYieldsNothing ==
    (pc = "done" /\ ~regex_search /\ query = <<>>)
        => (outcome.kind = "ok" /\ outcome.results = <<>>)

\* C3: search_content never fails: for every non-empty query and every pair of
\* flags the call runs to completion and returns a result list.
C3_SearchContentNeverFails ==
    (pc = "done" /\ query # <<>>) => outcome.kind = "ok"

\* [match_start, match_end) is a non-empty range of line_content holding the query
IsOccurrence(m, q, cs) ==
    /\ m.match_start < m.match_end
    /\ m.match_end <= ByteLen(m.line_content)
    /\ \E ks \in CharsAtByte(m.line_content, m.match_start) :
       \E ke \in CharsAtByte(m.line_content, m.match_end) :
          LET slice == SubSeq(m.line_content, ks + 1, ke)
          IN  IF cs THEN slice = q ELSE ToLowercase(slice) = ToLowercase(q)

\* C4: every match returned in plain mode is a half-open byte range of its own
\* line_content, and the bytes in that range are an occurrence of the query.
C4_MatchIsRangeOfLine ==
    (Returned /\ ~regex_search) =>
        \A i \in 1..Len(outcome.results) :
            \A k \in 1..Len(outcome.results[i].matches) :
                IsOccurrence(outcome.results[i].matches[k], query, case_sensitive)

RECURSIVE Ascending(_)
\* the members of a finite set of integers in increasing order
Ascending(S) ==
    IF S = {} THEN <<>>
    ELSE LET least == CHOOSE x \in S : \A y \in S : x <= y
         IN  <<least>> \o Ascending(S \ {least})

\* the spans (i, i + len(query)) of every byte offset i at which the query occurs
\* in the line as searched, in increasing order of i
AllOccurrences(line, q, cs) ==
    LET lb == Bytes(IF cs THEN line ELSE ToLowercase(line))
        qb == Bytes(IF cs THEN q ELSE ToLowercase(q))
        at == Ascending({i \in 0..Len(lb) : OccursAt(lb, qb, i)})
    IN  [k \in 1..Len(at) |-> <<at[k], at[k] + Len(qb)>>]

\* the spans the result reports for line n of the i-th document
ReportedSpans(i, n) ==
    LET mine == {r \in 1..Len(outcome.results) : outcome.results[r].path = files[i]}
        ms == IF mine = {} THEN <<>>
              ELSE SelectSeq(outcome.results[CHOOSE r \in mine : TRUE].matches,
                             LAMBDA m : m.line_number = n)
    IN  [k \in 1..Len(ms) |-> <<ms[k].match_start, ms[k].match_end>>]

\* C5: plain-mode overlap policy: for every line and every non-empty query the
\* matches reported for the line are the spans of every occurrence of the query,
\* overlapping ones included, in increasing order.
C5_PlainOverlapPolicy ==
    (pc = "done" /\ ~regex_search /\ query # <<>>) =>
        /\ outcome.kind = "ok"
        /\ \A i \in 1..Len(files) :
              \A n \in 1..Len(DocLines(i)) :
                  ReportedSpans(i, n) = AllOccurrences(DocLines(i)[n], query, case_sensitive)

\* C6: the returned list is ordered by non-increasing number of matches, and
\* documents with the same number of matches keep the walker's order.
C6_RankedStable ==
    Returned =>
        \A i \in 1..Len(outcome.results) :
            \A j \in (i + 1)..Len(outcome.results) :
                LET a == outcome.results[i]
                    b == outcome.results[j]
                IN  /\ Len(a.matches) >= Len(b.matches)
                    /\ Len(a.matches) = Len(b.matches)
                          => FileIndex(a.path) < FileIndex(b.path)

\* C6 witness: three documents returned, two of them tied, the first of the list
\* being the last the walker enumerated
C6_RankedWitness ==
    /\ Returned
    /\ Len(outcome.results) = 3
    /\ FileIndex(outcome.results[1].path) = 3
    /\ Len(outcome.results[2].matches) = Len(outcome.results[3].matches)
    /\ Len(outcome.results[1].matches) > Len(outcome.results[2].matches)

\* a query with more '(' than ')' or the reverse is no regular expression
Unbalanced(q) ==
    Cardinality({k \in 1..Len(q) : q[k] = 40}) # Cardinality({k \in 1..Len(q) : q[k] = 41})

\* C8: in regex mode a query that does not compile gives Ok with an empty result
\* list, whatever the documents hold and whatever case_sensitive is.
C8_RegexDegrade ==
    (pc = "done" /\ regex_search /\ Unbalanced(query))
        => (outcome.kind = "ok" /\ outcome.results = <<>>)

\* C8 witness: the document holds the text of the uncompilable query, and the
\* call returned
C8_RegexDegradeWitness ==
    /\ pc = "done"
    /\ regex_search
    /\ Unbalanced(query)
    /\ read[1].ok
    /\ Contains(read[1].text, query)
    /\ outcome.kind = "ok"

-----------------------------------------------------------------------------
(* get_all_markdown_files and search_files *)

\* The tree below the root is the sequence of its files in the order the file
\* system enumerates them; a file is the sequence of names from the root down to
\* it, and the directories are the proper prefixes of the files.

\* dir_path: "r"
Root == <<114>>

\* the path of an entry as WalkDir builds it: the root joined with the names
RECURSIVE Joined(_)
Joined(comps) ==
    IF comps = <<>> THEN <<>> ELSE <<47>> \o Head(comps) \o Joined(Tail(comps))

\* path.to_string_lossy().to_string()
PathString(comps) == Root \o Joined(comps)

RECURSIVE Dedup(_)
\* the distinct members of s in order of first occurrence
Dedup(s) ==
    IF s = <<>> THEN <<>>
    ELSE <<Head(s)>> \o Dedup(SelectSeq(Tail(s), LAMBDA x : x # Head(s)))

\* the names fs::read_dir enumerates in directory dir of tree t
ChildNames(t, dir) ==
    LET below == SelectSeq(t, LAMBDA f : /\ Len(f) > Len(dir)
                                         /\ SubSeq(f, 1, Len(dir)) = dir)
    IN  Dedup([k \in 1..Len(below) |-> below[k][Len(dir) + 1]])

\* path.is_file() for the entry at comps
IsFile(t, comps) == \E k \in 1..Len(t) : t[k] = comps

RECURSIVE Visit(_, _)
RECURSIVE VisitAll(_, _, _)
\* WalkDir yields an entry, then, for a directory, what lies below it
Visit(t, comps) ==
    <<comps>> \o (IF IsFile(t, comps) THEN <<>>
                  ELSE VisitAll(t, comps, ChildNames(t, comps)))

\* the entries below dir for the children named, in order
VisitAll(t, dir, names) ==
    IF names = <<>> THEN <<>>
    ELSE Visit(t, Append(dir, Head(names))) \o VisitAll(t, dir, Tail(names))

\* WalkDir::new(dir_path).follow_links(true).into_iter().filter_map(|e| e.ok()):
\* the root first, then depth first
WalkDir(t) == Visit(t, <<>>)

\* path.file_name()
FileName(comps) == IF comps = <<>> THEN Root ELSE comps[Len(comps)]

\* path.extension().map(|e| e == ext).unwrap_or(false): the extension is what
\* follows the last '.' of the file name, unless that '.' is its first character
HasExtension(name, ext) ==
    LET dots == {k \in 1..Len(name) : name[k] = 46}
        last == CHOOSE k \in dots : \A j \in dots : j <= k
    IN  /\ dots # {}
        /\ last > 1
        /\ SubSeq(name, last + 1, Len(name)) = ext

\* whether the loop body pushes the entry: not skipped as hidden, a file, and .md
Pushed(t, comps) ==
    /\ ~StartsWithDot(FileName(comps))
    /\ IsFile(t, comps)
    /\ HasExtension(FileName(comps), <<109, 100>>)

\* get_all_markdown_files(dir_path)
get_all_markdown_files(t) ==
    LET kept == SelectSeq(WalkDir(t), LAMBDA e : Pushed(t, e))
    IN  [k \in 1..Len(kept) |-> PathString(kept[k])]

\* the filter closure matching the whole path instead of its last segment
NameMatchesFullPath(path, query_lower) ==
    Contains(ToLowercase(path), query_lower)

\* the filter closure of search_files
NameMatches(path, query_lower) ==
    Contains(ToLowercase(LastSegment(path)), query_lower)

\* search_files(directory, query)
search_files(t, q) ==
    LET query_lower == ToLowercase(q)
    IN  SelectSeq(get_all_markdown_files(t), LAMBDA path : NameMatches(path, query_lower))

MaxDepth == 2
MaxTreeFiles == 2
MaxNameDepth == 1
MaxNameFiles == 2

\* directories "a.md" and ".g"
DirNames == {<<97, 46, 109, 100>>, <<46, 103>>}

\* files "A.md", "c.md", ".h.md" and "a.MD"
FileNames == {<<65, 46, 109, 100>>, <<99, 46, 109, 100>>,
              <<46, 104, 46, 109, 100>>, <<97, 46, 77, 68>>}

\* every place a file can be, at most depth directories below the root
FilePlaces(depth) == {d \o <<f>> : d \in SeqsUpTo(DirNames, depth), f \in FileNames}

\* the trees of at most n files, in every enumeration order
Trees(depth, n) ==
    {t \in SeqsUpTo(FilePlaces(depth), n) :
        \A i, j \in 1..Len(t) : i # j => t[i] # t[j]}

\* queries "", "a", "A", "C.M" and "/"
NameQueries == {<<>>, <<97>>, <<65>>, <<67, 46, 77>>, <<47>>}

InitWalk ==
    /\ tree \in Trees(MaxDepth, MaxTreeFiles)
    /\ name_query = <<>>
    /\ walked = <<>>
    /\ found = <<>>
    /\ pc = "start"
    /\ IdleSearch /\ IdleList /\ IdleCreate

InitNames ==
    /\ tree \in Trees(MaxNameDepth, MaxNameFiles)
    /\ name_query \in NameQueries
    /\ walked = <<>>
    /\ found = <<>>
    /\ pc = "start"
    /\ IdleSearch /\ IdleList /\ IdleCreate

GetAllMarkdownFilesCall ==
    /\ pc = "start"
    /\ walked' = get_all_markdown_files(tree)
    /\ pc' = "done"
    /\ UNCHANGED <<tree, name_query, found>>
    /\ UNCHANGED <<searchVars, listVars, createVars>>

SearchFilesCall ==
    /\ pc = "start"
    /\ found' = search_files(tree, name_query)
    /\ pc' = "done"
    /\ UNCHANGED <<tree, name_query, walked>>
    /\ UNCHANGED <<searchVars, listVars, createVars>>

NextWalk == GetAllMarkdownFilesCall

NextNames == SearchFilesCall

SpecWalk == InitWalk /\ [][NextWalk]_vars

SpecNames == InitNames /\ [][NextNames]_vars

-----------------------------------------------------------------------------
(* Claims about get_all_markdown_files and search_files *)

\* the files of the tree that lie at path string p
FilesAt(p) == {k \in 1..Len(tree) : PathString(tree[k]) = p}

\* C1: every path the walker returns is a regular file with extension md, and no
\* name below the root on the way to it starts with '.': what lies in a hidden
\* directory is never returned.
C1_WalkerPrunesHidden ==
    pc = "done" =>
        \A i \in 1..Len(walked) :
            \E k \in FilesAt(walked[i]) :
                LET f == tree[k]
                IN  /\ HasExtension(f[Len(f)], <<109, 100>>)
                    /\ \A d \in 1..Len(f) : f[d][1] # 46

\* whether needle occurs in hay, both sequences of code points
OccursIn(hay, needle) ==
    \E i \in 0..Len(hay) :
        /\ i + Len(needle) <= Len(hay)
        /\ \A k \in 1..Len(needle) : hay[i + k] = needle[k]

\* whether the basename of the file at path string p contains q, ignoring case
BasenameHolds(p, q) ==
    \E k \in FilesAt(p) :
        OccursIn(ToLowercase(tree[k][Len(tree[k])]), ToLowercase(q))

\* C9: search_files returns, in walker order, exactly the walker's paths whose
\* basename contains the query ignoring case; with an empty query, all of them.
C9_NameSearchIsBasenameFilter ==
    pc = "done" =>
        /\ found = SelectSeq(get_all_markdown_files(tree),
                             LAMBDA p : BasenameHolds(p, name_query))
        /\ name_query = <<>> => found = get_all_markdown_files(tree)

\* C9 witness: a non-empty query that differs from the basename in case selects one
\* path and leaves out another whose directory, not basename, contains the query
C9_NameSearchWitness ==
    /\ pc = "done"
    /\ name_query # <<>>
    /\ Len(found) = 1
    /\ ~OccursIn(LastSegment(found[1]), name_query)
    /\ \E i \in 1..Len(get_all_markdown_files(tree)) :
          LET p == get_all_markdown_files(tree)[i]
          IN  /\ p # found[1]
              /\ OccursIn(p, ToLowercase(name_query))

-----------------------------------------------------------------------------
(* read_directory *)

\* The path given is missing, a file, a directory fs::read_dir cannot open, or a
\* directory with the entries fs::read_dir enumerates, in its order.  The
\* metadata of an entry is carried along unchanged and left out here.

RECURSIVE BytesCmp(_, _)
\* Ord for str: lexicographic on the bytes
BytesCmp(x, y) ==
    IF x = <<>> THEN (IF y = <<>> THEN "Equal" ELSE "Less")
    ELSE IF y = <<>> THEN "Greater"
    ELSE IF Head(x) < Head(y) THEN "Less"
    ELSE IF Head(x) > Head(y) THEN "Greater"
    ELSE BytesCmp(Tail(x), Tail(y))

\* the closure of entries.sort_by without the lower-casing
EntryCmpCaseSensitive(a, b) ==
    IF a.is_directory /\ ~b.is_directory THEN "Less"
    ELSE IF ~a.is_directory /\ b.is_directory THEN "Greater"
    ELSE BytesCmp(Bytes(a.name), Bytes(b.name))

\* the closure of entries.sort_by
EntryCmp(a, b) ==
    IF a.is_directory /\ ~b.is_directory THEN "Less"
    ELSE IF ~a.is_directory /\ b.is_directory THEN "Greater"
    ELSE BytesCmp(Bytes(ToLowercase(a.name)), Bytes(ToLowercase(b.name)))

\* one step of a stable sort: x goes before the first entry it is Less than
InsertEntry(sorted, x) ==
    LET before == {k \in 1..Len(sorted) : EntryCmp(x, sorted[k]) = "Less"}
        at == IF before = {} THEN Len(sorted) + 1
              ELSE CHOOSE k \in before : \A j \in before : k <= j
    IN  SubSeq(sorted, 1, at - 1) \o <<x>> \o SubSeq(sorted, at, Len(sorted))

RECURSIVE SortEntries(_)
\* slice::sort_by, a stable sort
SortEntries(es) ==
    IF es = <<>> THEN <<>>
    ELSE InsertEntry(SortEntries(SubSeq(es, 1, Len(es) - 1)), es[Len(es)])

\* the FileEntry pushed for an enumerated entry
FileEntry(e) ==
    [name |-> e.name,
     path |-> Root \o <<47>> \o e.name,
     is_directory |-> e.is_dir,
     children |-> IF e.is_dir THEN <<"Some", <<>>>> ELSE <<"None">>]

\* read_directory(path)
read_directory(target) ==
    IF target.kind = "missing" THEN [ok |-> FALSE, err |-> "Directory does not exist"]
    ELSE IF target.kind = "file" THEN [ok |-> FALSE, err |-> "Path is not a directory"]
    ELSE IF target.kind = "denied" THEN [ok |-> FALSE, err |-> "Failed to read directory"]
    ELSE LET shown == SelectSeq(target.entries, LAMBDA e : ~StartsWithDot(e.name))
         IN  [ok |-> TRUE,
              entries |-> SortEntries([k \in 1..Len(shown) |-> FileEntry(shown[k])])]

MaxEntries == 4

\* names "a", "A", "ab", "B" and ".h"
EntryNames == {<<97>>, <<65>>, <<97, 98>>, <<66>>, <<46, 104>>}

\* what fs::read_dir may enumerate: entries of distinct names, in any order
Enumerations ==
    {es \in SeqsUpTo([name : EntryNames, is_dir : BOOLEAN], MaxEntries) :
        \A i, j \in 1..Len(es) : i # j => es[i].name # es[j].name}

Targets ==
    {[kind |-> "missing"], [kind |-> "file"], [kind |-> "denied"]}
        \cup {[kind |-> "dir", entries |-> es] : es \in Enumerations}

InitList ==
    /\ dir_entries \in Targets
    /\ listing = <<>>
    /\ pc = "start"
    /\ IdleSearch /\ IdleWalk /\ IdleCreate

ReadDirectoryCall ==
    /\ pc = "start"
    /\ listing' = read_directory(dir_entries)
    /\ pc' = "done"
    /\ UNCHANGED dir_entries
    /\ UNCHANGED <<searchVars, walkVars, createVars>>

NextList == ReadDirectoryCall

SpecList == InitList /\ [][NextList]_vars

-----------------------------------------------------------------------------
(* Claims about read_directory *)

\* x <= y in the lexicographic order of byte sequences
LexLeq(x, y) ==
    \/ /\ Len(x) <= Len(y)
       /\ \A k \in 1..Len(x) : x[k] = y[k]
    \/ \E d \in 1..Len(x) :
          /\ d <= Len(y)
          /\ x[d] < y[d]
          /\ \A k \in 1..(d - 1) : x[k] = y[k]

\* the name of an entry, lower-cased, as bytes
LowerName(e) == Bytes(ToLowercase(e.name))

\* the place of the entry named n in the enumeration
EnumIndex(n) ==
    CHOOSE k \in 1..Len(dir_entries.entries) : dir_entries.entries[k].name = n

\* C7: for an existing directory the listing holds no name starting with '.',
\* every directory before every file, names of each kind in non-decreasing
\* case-insensitive order, and entries of equal rank in enumeration order.
C7_ListingSorted ==
    (pc = "done" /\ dir_entries.kind = "dir") =>
        /\ listing.ok
        /\ \A i \in 1..Len(listing.entries) : listing.entries[i].name[1] # 46
        /\ \A i \in 1..Len(listing.entries) :
              \A j \in (i + 1)..Len(listing.entries) :
                  LET a == listing.entries[i]
                      b == listing.entries[j]
                  IN  /\ ~(~a.is_directory /\ b.is_directory)
                      /\ a.is_directory = b.is_directory =>
                            /\ LexLeq(LowerName(a), LowerName(b))
                            /\ LowerName(a) = LowerName(b)
                                  => EnumIndex(a.name) < EnumIndex(b.name)

\* C7 witness: a hidden entry was enumerated, a directory was enumerated after a
\* file, and "a" was enumerated before "A", both files: the listing shows the
\* directory first and keeps "a" before "A"
C7_ListingWitness ==
    /\ pc = "done"
    /\ dir_entries.kind = "dir"
    /\ listing.ok
    /\ \E k \in 1..Len(dir_entries.entries) : dir_entries.entries[k].name[1] = 46
    /\ Len(listing.entries) = 3
    /\ listing.entries[1].is_directory
    /\ EnumIndex(listing.entries[1].name) > EnumIndex(listing.entries[2].name)
    /\ listing.entries[2].name = <<97>>
    /\ listing.entries[3].name = <<65>>
    /\ ~listing.entries[2].is_directory
    /\ ~listing.entries[3].is_directory

-----------------------------------------------------------------------------
(* create_file *)

\* A request runs in three steps: file_path.exists(), fs::create_dir_all(parent)
\* and fs::write(&path, content).  Requests of the host run concurrently, so the
\* steps of two requests interleave.  The parent directory exists and the disk
\* takes every write.

NumCalls == 2

CreatePaths == {"p", "q"}

\* the content request i writes; 0 for what was on disk before
ContentOf(i) == <<"content", i>>

\* Option of the content of a file
Absent == <<>>

\* Path::exists
Exists(d, p) == d[p] # Absent

InitCreate ==
    /\ disk \in [CreatePaths -> {Absent, <<ContentOf(0)>>}]
    /\ calls \in [1..NumCalls ->
                    [path : CreatePaths, at : {"exists"}, result : {"pending"}]]
    /\ pc = "start"
    /\ IdleSearch /\ IdleWalk /\ IdleList

\* if file_path.exists() { return Err("File already exists") }
CheckExists(i) ==
    /\ calls[i].at = "exists"
    /\ calls' = [calls EXCEPT ![i] =
                    IF Exists(disk, calls[i].path)
                    THEN [@ EXCEPT !.at = "returned", !.result = "AlreadyExists"]
                    ELSE [@ EXCEPT !.at = "create_dir_all"]]
    /\ UNCHANGED <<disk, pc>>
    /\ UNCHANGED <<searchVars, walkVars, listVars>>

\* fs::create_dir_all(parent)
CreateDirAll(i) ==
    /\ calls[i].at = "create_dir_all"
    /\ calls' = [calls EXCEPT ![i].at = "write"]
    /\ UNCHANGED <<disk, pc>>
    /\ UNCHANGED <<searchVars, walkVars, listVars>>

\* fs::write(&path, content)
WriteFile(i) ==
    /\ calls[i].at = "write"
    /\ disk' = [disk EXCEPT ![calls[i].path] = <<ContentOf(i)>>]
    /\ calls' = [calls EXCEPT ![i] = [@ EXCEPT !.at = "returned", !.result = "Ok"]]
    /\ UNCHANGED pc
    /\ UNCHANGED <<searchVars, walkVars, listVars>>

NextCreate ==
    \E i \in 1..NumCalls : CheckExists(i) \/ CreateDirAll(i) \/ WriteFile(i)

SpecCreate == InitCreate /\ [][NextCreate]_vars

-----------------------------------------------------------------------------
(* Claims about create_file *)

\* C10: create_file never overwrites an existing file, also under concurrent
\* requests: of two requests for the same path at most one returns Ok, and once
\* both have returned the file holds the content of the one that did.
C10_CreateNeverOverwrites ==
    \A i, j \in 1..NumCalls :
        (i # j /\ calls[i].path = calls[j].path /\ calls[i].result = "Ok")
            => /\ calls[j].result # "Ok"
               /\ calls[j].at = "returned" => disk[calls[i].path] = <<ContentOf(i)>>

=============================================================================
